---- MODULE Spec2Model ----
(***************************************************************************)
(* NodeGraphQt: the undoable edit commands of base/commands.py driven by   *)
(* the graph's undo stack, and topological_sort of base/utils.py.          *)
(*                                                                         *)
(* A port is the pair <<node id, port name>>.  A port model's              *)
(* connected_ports is a mapping from peer node id to the list of peer port *)
(* names; it is a function whose DOMAIN is the set of keys present.        *)
(***************************************************************************)
EXTENDS Integers, Sequences, FiniteSets, TLC

\* ------------------------------------------------------------------------
\* Bounds and universe
\* ------------------------------------------------------------------------

\* number of commands constructed in one run
MaxPush == 2

NodeIds == {1, 2}

PropNames == {"color"}

Values == {0, 1}

Positions == {0, 1}

IN_PORT == "in"

OUT_PORT == "out"

\* node.inputs().values(), in port creation order
inputs(n) == IF n = 2 THEN << <<2, "a">>, <<2, "b">> >> ELSE << >>

\* node.outputs().values(), in port creation order
outputs(n) == IF n = 1 THEN << <<1, "o">> >> ELSE << >>

Range(s) == {s[i] : i \in 1..Len(s)}

Ports == UNION {Range(inputs(n)) \cup Range(outputs(n)) : n \in NodeIds}

PortType(p) == IF p \in Range(inputs(p[1])) THEN IN_PORT ELSE OUT_PORT

\* pairs a pipe can join: one input and one output port
Connectable == {pq \in Ports \X Ports : PortType(pq[1]) # PortType(pq[2])}

VARIABLES
    nodes,            \* graph.model.nodes: ids of the nodes in the model
    connected_ports,  \* port -> (peer node id -> list of peer port names)
    properties,       \* node id -> (property name -> value)
    pos,              \* node id -> model.pos
    visible,          \* port -> model.visible
    widgets,          \* node id -> (name -> view.widgets[name].value)
    prop_bin,         \* node id -> (name -> property bin widget value)
    calls,            \* view / property-bin calls made by the last operation
    raised,           \* the last operation raised an exception
    stack,            \* undo stack: the commands, oldest first
    index,            \* undo stack cursor
    created,          \* number of commands constructed so far
    discarded,        \* uids of the commands dropped from the stack
    executed,         \* <<uid, "redo" | "undo">> calls of the last operation
    applied,          \* uids of the commands executed and not undone
    fresh,            \* every command so far was built from the model state
    sound             \* every command so far named nodes of the model only

\* the call of topological_sort
VARIABLES
    out_conn,     \* node -> output ports -> nodes of the connected ports
    start_nodes,  \* argument start_nodes
    all_nodes,    \* argument all_nodes
    result,       \* the returned list
    pc            \* "idle", "call" before and "done" after the call

topovars == <<out_conn, start_nodes, all_nodes, result, pc>>

cmdvars == <<nodes, connected_ports, properties, pos, visible, widgets,
             prop_bin, calls, raised, stack, index, created, discarded,
             executed, applied, fresh, sound>>

\* ------------------------------------------------------------------------
\* The world a command acts on, as a record
\* ------------------------------------------------------------------------

World == [nodes |-> nodes, connected_ports |-> connected_ports,
          properties |-> properties, pos |-> pos, visible |-> visible,
          widgets |-> widgets, prop_bin |-> prop_bin,
          calls |-> << >>, raised |-> FALSE]

\* the Graph Model part of a world
Model(w) == [nodes |-> w.nodes, connected_ports |-> w.connected_ports,
             properties |-> w.properties, pos |-> w.pos,
             visible |-> w.visible]

Call(w, c) == [w EXCEPT !.calls = Append(@, c)]

InSeq(x, s) == \E i \in 1..Len(s) : s[i] = x

\* list.remove(x): drops the first occurrence
RECURSIVE ListRemove(_, _)
ListRemove(s, x) ==
    IF s = << >> THEN s
    ELSE IF Head(s) = x THEN Tail(s)
    ELSE <<Head(s)>> \o ListRemove(Tail(s), x)

\* "port_names is []": identity comparison with a freshly built list
IsNewList(port_names) == FALSE

\* connected_ports[node_id].append(port_name); the mapping creates a
\* missing key with an empty list
AppendPortName(cp, node_id, port_name) ==
    IF node_id \in DOMAIN cp
    THEN [cp EXCEPT ![node_id] = Append(@, port_name)]
    ELSE [k \in DOMAIN cp \cup {node_id} |->
             IF k = node_id THEN <<port_name>> ELSE cp[k]]

\* the guard without its membership test
ShouldRemove_NoMembership(port_names, port_name) == port_names # << >>

\* "if port_names and name in port_names": port_names is None (no key),
\* or a list
ShouldRemove(port_names, port_name) ==
    port_names # << >> /\ InSeq(port_name, port_names)

\* one side of the disconnect: get, "is []" prune, guarded remove.
\* The result is [cp, raised]: "del" raises KeyError for an absent key and
\* list.remove raises ValueError for an absent name.
RemovePortName(cp, node_id, port_name) ==
    LET present == node_id \in DOMAIN cp
        port_names == IF present THEN cp[node_id] ELSE << >>
        prune == IsNewList(port_names)
        pruned == IF prune /\ present
                  THEN [k \in DOMAIN cp \ {node_id} |-> cp[k]]
                  ELSE cp
    IN  IF prune /\ ~present THEN [cp |-> cp, raised |-> TRUE]
        ELSE IF ShouldRemove(port_names, port_name)
        THEN IF node_id \in DOMAIN pruned /\ InSeq(port_name, port_names)
             THEN [cp |-> [pruned EXCEPT
                              ![node_id] = ListRemove(@, port_name)],
                   raised |-> FALSE]
             ELSE [cp |-> pruned, raised |-> TRUE]
        ELSE [cp |-> pruned, raised |-> FALSE]

\* a connect that records the pipe on the source side only
ConnectPorts_SourceOnly(w, source, target) ==
    Call([w EXCEPT !.connected_ports[source] =
                       AppendPortName(@, target[1], target[2])],
         <<"view.connect_to", source, target>>)

\* PortConnectedCmd.redo / PortDisconnectedCmd.undo
ConnectPorts(w, source, target) ==
    LET c1 == [w.connected_ports EXCEPT
                  ![source] = AppendPortName(@, target[1], target[2])]
        c2 == [c1 EXCEPT ![target] = AppendPortName(@, source[1], source[2])]
    IN  Call([w EXCEPT !.connected_ports = c2],
             <<"view.connect_to", source, target>>)

\* PortConnectedCmd.undo / PortDisconnectedCmd.redo
DisconnectPorts(w, source, target) ==
    LET s == RemovePortName(w.connected_ports[source], target[1], target[2])
        c1 == [w.connected_ports EXCEPT ![source] = s.cp]
        t == RemovePortName(c1[target], source[1], source[2])
        c2 == [c1 EXCEPT ![target] = t.cp]
    IN  IF s.raised
        THEN [w EXCEPT !.connected_ports = c1, !.raised = TRUE]
        ELSE IF t.raised
        THEN [w EXCEPT !.connected_ports = c2, !.raised = TRUE]
        ELSE Call([w EXCEPT !.connected_ports = c2],
                  <<"view.disconnect_from", source, target>>)

\* Port.connected_ports(): the peer ports named by the port's mapping
RECURSIVE PortsOfKeys(_, _, _)
PortsOfKeys(cp, keys, n) ==
    IF n > Cardinality(NodeIds) THEN << >>
    ELSE (IF n \in keys THEN [i \in 1..Len(cp[n]) |-> <<n, cp[n][i]>>]
          ELSE << >>) \o PortsOfKeys(cp, keys, n + 1)

ConnectedPortsOf(w, port) ==
    PortsOfKeys(w.connected_ports[port], DOMAIN w.connected_ports[port], 1)

\* Port.connect_to(p): connects unless already connected
connect_to(w, port, p) ==
    IF InSeq(p, ConnectedPortsOf(w, port)) THEN w
    ELSE ConnectPorts(w, port, p)

\* Port.disconnect_from(p)
disconnect_from(w, port, p) == DisconnectPorts(w, port, p)

\* ------------------------------------------------------------------------
\* Commands.  One record shape for all seven classes; a class uses the
\* fields its __init__ sets and leaves the others at their defaults.
\* ------------------------------------------------------------------------

NoPort == <<0, "">>

BaseCmd(type, uid) ==
    [type |-> type, uid |-> uid, node |-> 0, name |-> "",
     old_val |-> 0, new_val |-> 0, pos |-> << >>, prev_pos |-> << >>,
     inputs |-> << >>, outputs |-> << >>, source |-> NoPort,
     target |-> NoPort, port |-> NoPort, visible |-> FALSE,
     given_pos |-> << >>]

PropertyChangedCmd(w, uid, node, name, value) ==
    [BaseCmd("PropertyChangedCmd", uid) EXCEPT
        !.node = node, !.name = name,
        !.old_val = w.properties[node][name], !.new_val = value]

NodeMovedCmd(uid, node, p, prev_pos) ==
    [BaseCmd("NodeMovedCmd", uid) EXCEPT
        !.node = node, !.pos = <<p>>, !.prev_pos = <<prev_pos>>]

\* p is << >> for pos=None, or <<position>>; given_pos keeps the argument
\* for the properties below, the code reads self.pos only
NodeAddedCmd(uid, node, p) ==
    [BaseCmd("NodeAddedCmd", uid) EXCEPT
        !.node = node, !.pos = p, !.given_pos = p]

\* [(p, p.connected_ports()) for p in ports]
Capture(w, ports) ==
    [i \in 1..Len(ports) |-> <<ports[i], ConnectedPortsOf(w, ports[i])>>]

NodeRemovedCmd(w, uid, node) ==
    [BaseCmd("NodeRemovedCmd", uid) EXCEPT
        !.node = node,
        !.inputs = Capture(w, inputs(node)),
        !.outputs = Capture(w, outputs(node))]

PortConnectedCmd(uid, src_port, trg_port) ==
    [BaseCmd("PortConnectedCmd", uid) EXCEPT
        !.source = src_port, !.target = trg_port]

PortDisconnectedCmd(uid, src_port, trg_port) ==
    [BaseCmd("PortDisconnectedCmd", uid) EXCEPT
        !.source = src_port, !.target = trg_port]

PortVisibleCmd(w, uid, port) ==
    [BaseCmd("PortVisibleCmd", uid) EXCEPT
        !.port = port, !.visible = w.visible[port]]

\* PropertyChangedCmd.set_node_prop
set_node_prop(w, node, name, value) ==
    LET w1 == [w EXCEPT !.properties[node][name] = value]
        w2 == IF w1.widgets[node][name] # value
              THEN Call([w1 EXCEPT !.widgets[node][name] = value],
                        <<"widget.value", node, name, value>>)
              ELSE w1
    IN  Call(w2, <<"view.setattr", node, name, value>>)

\* PropertyChangedCmd.update_prop_bin
update_prop_bin(w, node, name, value) ==
    IF w.prop_bin[node][name] # value
    THEN Call([w EXCEPT !.prop_bin[node][name] = value],
              <<"prop_wgt.set_value", node, name, value>>)
    ELSE w

\* an undo without the old_val != new_val guard
PropertyChanged_undo_Unguarded(cmd, w) ==
    update_prop_bin(set_node_prop(w, cmd.node, cmd.name, cmd.old_val),
                    cmd.node, cmd.name, cmd.old_val)

PropertyChanged_undo(cmd, w) ==
    IF cmd.old_val # cmd.new_val
    THEN update_prop_bin(set_node_prop(w, cmd.node, cmd.name, cmd.old_val),
                         cmd.node, cmd.name, cmd.old_val)
    ELSE w

PropertyChanged_redo(cmd, w) ==
    IF cmd.old_val # cmd.new_val
    THEN update_prop_bin(set_node_prop(w, cmd.node, cmd.name, cmd.new_val),
                         cmd.node, cmd.name, cmd.new_val)
    ELSE w

\* an undo with the guard of redo
NodeMoved_undo_Guarded(cmd, w) ==
    IF cmd.pos = cmd.prev_pos THEN w
    ELSE Call([w EXCEPT !.pos[cmd.node] = cmd.prev_pos[1]],
              <<"view.xy_pos", cmd.node, cmd.prev_pos[1]>>)

NodeMoved_undo(cmd, w) ==
    Call([w EXCEPT !.pos[cmd.node] = cmd.prev_pos[1]],
         <<"view.xy_pos", cmd.node, cmd.prev_pos[1]>>)

NodeMoved_redo(cmd, w) ==
    IF cmd.pos = cmd.prev_pos THEN w
    ELSE Call([w EXCEPT !.pos[cmd.node] = cmd.pos[1]],
              <<"view.xy_pos", cmd.node, cmd.pos[1]>>)

\* an undo that always stores the node's current position
NodeAdded_pos_Current(cmd, w) == <<w.pos[cmd.node]>>

\* self.pos = self.pos or self.node.pos()
NodeAdded_pos(cmd, w) ==
    IF cmd.pos # << >> THEN cmd.pos ELSE <<w.pos[cmd.node]>>

\* nodes.pop(id) raises KeyError for an absent id; view.delete() follows
NodeAdded_undo(cmd, w) ==
    IF cmd.node \notin w.nodes THEN [w EXCEPT !.raised = TRUE]
    ELSE Call([w EXCEPT !.nodes = @ \ {cmd.node}],
              <<"view.delete", cmd.node>>)

NodeAdded_redo(cmd, w) ==
    Call([w EXCEPT !.nodes = @ \cup {cmd.node}],
         <<"viewer.add_node", cmd.node, cmd.pos>>)

\* [port.connect_to(p) for p in connected_ports]
RECURSIVE ConnectEach(_, _, _)
ConnectEach(w, port, ps) ==
    IF ps = << >> THEN w
    ELSE ConnectEach(connect_to(w, port, Head(ps)), port, Tail(ps))

\* [port.disconnect_from(p) for p in connected_ports]
RECURSIVE DisconnectEach(_, _, _)
DisconnectEach(w, port, ps) ==
    IF ps = << >> \/ w.raised THEN w
    ELSE DisconnectEach(disconnect_from(w, port, Head(ps)), port, Tail(ps))

\* for port, connected_ports in captured: connect each
RECURSIVE ConnectCaptured(_, _)
ConnectCaptured(w, captured) ==
    IF captured = << >> THEN w
    ELSE ConnectCaptured(
             ConnectEach(w, Head(captured)[1], Head(captured)[2]),
             Tail(captured))

\* for port, connected_ports in captured: disconnect each
RECURSIVE DisconnectCaptured(_, _)
DisconnectCaptured(w, captured) ==
    IF captured = << >> \/ w.raised THEN w
    ELSE DisconnectCaptured(
             DisconnectEach(w, Head(captured)[1], Head(captured)[2]),
             Tail(captured))

\* an undo that re-inserts the node and reconnects nothing
NodeRemoved_undo_NoReconnect(cmd, w) ==
    Call([w EXCEPT !.nodes = @ \cup {cmd.node}], <<"scene.addItem", cmd.node>>)

NodeRemoved_undo(cmd, w) ==
    LET w1 == Call([w EXCEPT !.nodes = @ \cup {cmd.node}],
                   <<"scene.addItem", cmd.node>>)
    IN  ConnectCaptured(ConnectCaptured(w1, cmd.inputs), cmd.outputs)

\* the disconnects come first; nodes.pop(id) raises KeyError for an
\* absent id and view.delete() is then not reached
NodeRemoved_redo(cmd, w) ==
    LET w1 == DisconnectCaptured(DisconnectCaptured(w, cmd.inputs),
                                 cmd.outputs)
    IN  IF w1.raised \/ cmd.node \notin w1.nodes
        THEN [w1 EXCEPT !.raised = TRUE]
        ELSE Call([w1 EXCEPT !.nodes = @ \ {cmd.node}],
                  <<"view.delete", cmd.node>>)

PortConnected_undo(cmd, w) == DisconnectPorts(w, cmd.source, cmd.target)

PortConnected_redo(cmd, w) == ConnectPorts(w, cmd.source, cmd.target)

PortDisconnected_undo(cmd, w) == ConnectPorts(w, cmd.source, cmd.target)

PortDisconnected_redo(cmd, w) == DisconnectPorts(w, cmd.source, cmd.target)

\* PortVisibleCmd.set_visible
\* a set_visible that refreshes the node layout before it tells the views
set_visible_RefreshFirst(w, port, v) ==
    Call(Call(Call([w EXCEPT !.visible[port] = v],
                   <<"post_init", port[1]>>),
              <<"view.setVisible", port, v>>),
         <<"text_item.setVisible", port, v>>)

set_visible(w, port, v) ==
    Call(Call(Call([w EXCEPT !.visible[port] = v],
                   <<"view.setVisible", port, v>>),
              <<"text_item.setVisible", port, v>>),
         <<"post_init", port[1]>>)

PortVisible_undo(cmd, w) == set_visible(w, cmd.port, cmd.visible)

PortVisible_redo(cmd, w) == set_visible(w, cmd.port, ~cmd.visible)

\* QUndoCommand.undo, dispatched on the class
CmdUndo(cmd, w) ==
    CASE cmd.type = "PropertyChangedCmd" -> PropertyChanged_undo(cmd, w)
      [] cmd.type = "NodeMovedCmd" -> NodeMoved_undo(cmd, w)
      [] cmd.type = "NodeAddedCmd" -> NodeAdded_undo(cmd, w)
      [] cmd.type = "NodeRemovedCmd" -> NodeRemoved_undo(cmd, w)
      [] cmd.type = "PortConnectedCmd" -> PortConnected_undo(cmd, w)
      [] cmd.type = "PortDisconnectedCmd" -> PortDisconnected_undo(cmd, w)
      [] cmd.type = "PortVisibleCmd" -> PortVisible_undo(cmd, w)

\* QUndoCommand.redo, dispatched on the class
CmdRedo(cmd, w) ==
    CASE cmd.type = "PropertyChangedCmd" -> PropertyChanged_redo(cmd, w)
      [] cmd.type = "NodeMovedCmd" -> NodeMoved_redo(cmd, w)
      [] cmd.type = "NodeAddedCmd" -> NodeAdded_redo(cmd, w)
      [] cmd.type = "NodeRemovedCmd" -> NodeRemoved_redo(cmd, w)
      [] cmd.type = "PortConnectedCmd" -> PortConnected_redo(cmd, w)
      [] cmd.type = "PortDisconnectedCmd" -> PortDisconnected_redo(cmd, w)
      [] cmd.type = "PortVisibleCmd" -> PortVisible_redo(cmd, w)

\* the command object after its undo ran: NodeAddedCmd.undo stores the
\* position it used
CmdAfterUndo(cmd, w) ==
    IF cmd.type = "NodeAddedCmd"
    THEN [cmd EXCEPT !.pos = NodeAdded_pos(cmd, w)]
    ELSE cmd

\* ------------------------------------------------------------------------
\* The undo stack (graph.undo_stack()), as operators on a record
\* [w, stack, index, discarded, executed]
\* ------------------------------------------------------------------------

Uids(s) == {s[i].uid : i \in 1..Len(s)}

\* a push that keeps the commands after the cursor
StackPush_NoTruncate(h, cmd) ==
    [w |-> CmdRedo(cmd, h.w),
     stack |-> SubSeq(h.stack, 1, h.index) \o <<cmd>>
               \o SubSeq(h.stack, h.index + 1, Len(h.stack)),
     index |-> h.index + 1,
     discarded |-> h.discarded \cup (Uids(h.stack)
                                     \ Uids(SubSeq(h.stack, 1, h.index))),
     executed |-> <<<<cmd.uid, "redo">>>>]

\* push(cmd): drop the commands at and after the cursor, run cmd.redo()
\* once, append cmd, move the cursor to the end
StackPush(h, cmd) ==
    LET kept == SubSeq(h.stack, 1, h.index)
    IN  [w |-> CmdRedo(cmd, h.w),
         stack |-> Append(kept, cmd),
         index |-> h.index + 1,
         discarded |-> h.discarded \cup (Uids(h.stack) \ Uids(kept)),
         executed |-> <<<<cmd.uid, "redo">>>>]

\* an undo that leaves the cursor where it was
StackUndo_CursorStays(h) ==
    IF h.index = 0 THEN h
    ELSE LET cmd == h.stack[h.index]
         IN  [h EXCEPT !.w = CmdUndo(cmd, h.w),
                       !.stack[h.index] = CmdAfterUndo(cmd, h.w),
                       !.executed = Append(@, <<cmd.uid, "undo">>)]

\* undo(): nothing at cursor 0
StackUndo(h) ==
    IF h.index = 0 THEN h
    ELSE LET cmd == h.stack[h.index]
         IN  [h EXCEPT !.w = CmdUndo(cmd, h.w),
                       !.stack[h.index] = CmdAfterUndo(cmd, h.w),
                       !.index = h.index - 1,
                       !.executed = Append(@, <<cmd.uid, "undo">>)]

\* redo(): nothing at cursor = length
StackRedo(h) ==
    IF h.index = Len(h.stack) THEN h
    ELSE LET cmd == h.stack[h.index + 1]
         IN  [h EXCEPT !.w = CmdRedo(cmd, h.w),
                       !.index = h.index + 1,
                       !.executed = Append(@, <<cmd.uid, "redo">>)]

\* a clear that leaves the cursor where it was
StackClear_KeepCursor(h) ==
    [h EXCEPT !.stack = << >>,
              !.discarded = @ \cup Uids(h.stack)]

\* clear()
StackClear(h) ==
    [h EXCEPT !.stack = << >>, !.index = 0,
              !.discarded = @ \cup Uids(h.stack)]

\* the history as the current operation finds it
Hist == [w |-> World, stack |-> stack, index |-> index,
         discarded |-> discarded, executed |-> << >>]

\* ------------------------------------------------------------------------
\* Actions
\* ------------------------------------------------------------------------

\* the applied commands after the redo / undo calls of one operation
RECURSIVE Replay(_, _)
Replay(a, ex) ==
    IF ex = << >> THEN a
    ELSE Replay(IF Head(ex)[2] = "redo" THEN Append(a, Head(ex)[1])
                ELSE SelectSeq(a, LAMBDA u : u # Head(ex)[1]),
                Tail(ex))

Install(h) ==
    /\ nodes' = h.w.nodes
    /\ connected_ports' = h.w.connected_ports
    /\ properties' = h.w.properties
    /\ pos' = h.w.pos
    /\ visible' = h.w.visible
    /\ widgets' = h.w.widgets
    /\ prop_bin' = h.w.prop_bin
    /\ calls' = h.w.calls
    /\ raised' = h.w.raised
    /\ stack' = h.stack
    /\ index' = h.index
    /\ discarded' = h.discarded
    /\ executed' = h.executed
    /\ applied' = Replay(applied, h.executed)
    /\ UNCHANGED topovars

\* the node ids a command refers to
NamedNodes(cmd) ==
    CASE cmd.type \in {"PortConnectedCmd", "PortDisconnectedCmd"}
           -> {cmd.source[1], cmd.target[1]}
      [] cmd.type = "PortVisibleCmd" -> {cmd.port[1]}
      [] OTHER -> {cmd.node}

\* the command names only nodes of the node mapping; a NodeAddedCmd names
\* the node it adds, which is not in the mapping yet
NamesPresent(cmd) ==
    IF cmd.type = "NodeAddedCmd" THEN cmd.node \notin nodes
    ELSE NamedNodes(cmd) \subseteq nodes

Push(cmd) ==
    /\ created < MaxPush
    /\ created' = created + 1
    /\ sound' = (sound /\ NamesPresent(cmd))
    /\ Install(StackPush(Hist, cmd))

\* a NodeMovedCmd is built from the model state when its prev_pos is the
\* node's model position; the other classes read what they capture
BuiltFromModel(cmd) ==
    cmd.type = "NodeMovedCmd" => cmd.prev_pos = <<pos[cmd.node]>>

PushPropertyChanged ==
    \E node \in NodeIds, name \in PropNames, value \in Values :
        /\ Push(PropertyChangedCmd(World, created + 1, node, name, value))
        /\ UNCHANGED fresh

PushNodeMoved ==
    \E node \in NodeIds, p \in Positions, prev \in Positions :
        /\ Push(NodeMovedCmd(created + 1, node, p, prev))
        /\ fresh' = (fresh /\ BuiltFromModel(
                                  NodeMovedCmd(created + 1, node, p, prev)))

PushNodeAdded ==
    \E node \in NodeIds, p \in {<< >>} \cup {<<x>> : x \in Positions} :
        /\ Push(NodeAddedCmd(created + 1, node, p))
        /\ UNCHANGED fresh

PushNodeRemoved ==
    \E node \in NodeIds :
        /\ Push(NodeRemovedCmd(World, created + 1, node))
        /\ UNCHANGED fresh

PushPortConnected ==
    \E pq \in Connectable :
        /\ Push(PortConnectedCmd(created + 1, pq[1], pq[2]))
        /\ UNCHANGED fresh

PushPortDisconnected ==
    \E pq \in Connectable :
        /\ Push(PortDisconnectedCmd(created + 1, pq[1], pq[2]))
        /\ UNCHANGED fresh

PushPortVisible ==
    \E port \in Ports :
        /\ Push(PortVisibleCmd(World, created + 1, port))
        /\ UNCHANGED fresh

Undo == Install(StackUndo(Hist)) /\ UNCHANGED <<created, fresh, sound>>

Redo == Install(StackRedo(Hist)) /\ UNCHANGED <<created, fresh, sound>>

Clear == Install(StackClear(Hist)) /\ UNCHANGED <<created, fresh, sound>>

\* the documents a session starts from: no pipe, one pipe, or the output
\* of node 1 feeding both inputs of node 2
InitialGraphs ==
    { [p \in Ports |-> << >>],
      [p \in Ports |->
          IF p = <<1, "o">> THEN [k \in {2} |-> <<"a">>]
          ELSE IF p = <<2, "a">> THEN [k \in {1} |-> <<"o">>]
          ELSE << >>],
      [p \in Ports |->
          IF p = <<1, "o">> THEN [k \in {2} |-> <<"a", "b">>]
          ELSE [k \in {1} |-> <<"o">>]] }

CmdInit ==
    /\ nodes = NodeIds
    /\ connected_ports \in InitialGraphs
    /\ properties = [n \in NodeIds |-> [name \in PropNames |-> 0]]
    /\ pos = [n \in NodeIds |-> 0]
    /\ visible = [p \in Ports |-> TRUE]
    /\ widgets = [n \in NodeIds |-> [name \in PropNames |-> 0]]
    /\ prop_bin = [n \in NodeIds |-> [name \in PropNames |-> 0]]
    /\ calls = << >>
    /\ raised = FALSE
    /\ stack = << >>
    /\ index = 0
    /\ created = 0
    /\ discarded = {}
    /\ executed = << >>
    /\ applied = << >>
    /\ fresh = TRUE
    /\ sound = TRUE

\* ------------------------------------------------------------------------
\* topological_sort (base/utils.py).  A graph gives, for every node, its
\* output ports in order and, for every output port, the nodes of the
\* ports connected to it in order.  A port view holds one pipe per
\* connection, shared with the port view at the other end.
\* ------------------------------------------------------------------------

\* pipes in one graph
MaxPipes == 4

\* length of an explicit start list
MaxStart == 2

TNodes == {1, 2, 3, 4}

\* the output ports of node n: two ports, each taking one pipe to another
\* node; a single pipe is on the second port
NodeShapes(n) ==
    {<< << >>, << >> >>}
    \cup {<< << >>, <<x>> >> : x \in TNodes \ {n}}
    \cup {<< <<x>>, <<y>> >> : x \in TNodes \ {n}, y \in TNodes \ {n}}

RECURSIVE Flatten(_)
Flatten(ss) == IF ss = << >> THEN << >> ELSE Head(ss) \o Flatten(Tail(ss))

RECURSIVE SumLen(_, _)
SumLen(g, ns) ==
    IF ns = {} THEN 0
    ELSE LET n == CHOOSE x \in ns : TRUE
         IN  Len(Flatten(g[n])) + SumLen(g, ns \ {n})

Graphs ==
    {g \in [TNodes -> UNION {NodeShapes(n) : n \in TNodes}] :
        /\ \A n \in TNodes : g[n] \in NodeShapes(n)
        /\ SumLen(g, TNodes) <= MaxPipes}

SeqsUpTo(S, k) == UNION {[1..m -> S] : m \in 0..k}

StartLists == SeqsUpTo(TNodes, MaxStart)

CandidateLists == {<< >>, <<1, 2, 3, 4>>, <<4, 3, 2, 1>>}

\* keeps the first occurrence of each element: the values of a dict filled
\* in list order
RECURSIVE Dedup(_, _)
Dedup(s, seen) ==
    IF s = << >> THEN << >>
    ELSE IF Head(s) \in seen THEN Dedup(Tail(s), seen)
    ELSE <<Head(s)>> \o Dedup(Tail(s), seen \cup {Head(s)})

get_output_nodes(g, node) == Dedup(Flatten(g[node]), {})

\* some input port of the node has a pipe
has_input_node(g, node) ==
    \E m \in TNodes : \E i \in 1..Len(g[m]) : InSeq(node, g[m][i])

\* some output port of the node has a pipe
has_output_node(g, node) ==
    \E i \in 1..Len(g[node]) : g[node][i] # << >>

\* graph[n] = ns, for a dict held as a function on its keys
DictSet(graph, n, ns) ==
    [k \in DOMAIN graph \cup {n} |-> IF k = n THEN ns ELSE graph[k]]

\* the for loop of the while body: [graph, next] after output_nodes
RECURSIVE BuildFor(_, _, _)
BuildFor(g, st, output_nodes) ==
    IF output_nodes = << >> THEN st
    ELSE LET n == Head(output_nodes)
         IN  IF n \notin DOMAIN st.graph
             THEN BuildFor(g,
                           [graph |-> DictSet(st.graph, n,
                                              get_output_nodes(g, n)),
                            next |-> st.next \o get_output_nodes(g, n)],
                           Tail(output_nodes))
             ELSE BuildFor(g, st, Tail(output_nodes))

\* while output_nodes: ...
RECURSIVE BuildWhile(_, _, _)
BuildWhile(g, graph, output_nodes) ==
    IF output_nodes = << >> THEN graph
    ELSE LET st == BuildFor(g, [graph |-> graph, next |-> << >>],
                            output_nodes)
         IN  BuildWhile(g, st.graph, st.next)

\* for node in start_nodes: ...
RECURSIVE BuildFrom(_, _, _)
BuildFrom(g, graph, starts) ==
    IF starts = << >> THEN graph
    ELSE LET node == Head(starts)
             output_nodes == get_output_nodes(g, node)
         IN  BuildFrom(g,
                       BuildWhile(g, DictSet(graph, node, output_nodes),
                                  output_nodes),
                       Tail(starts))

build_graph(g, starts) == BuildFrom(g, << >>, starts)

\* dfs(graph, start_node) on the state [visit, sorted_nodes]
RECURSIVE dfs(_, _, _)
RECURSIVE dfs_for(_, _, _)
dfs_for(graph, ends, st) ==
    IF ends = << >> THEN st
    ELSE LET end_node == Head(ends)
         IN  IF ~st.visit[end_node]
             THEN dfs_for(graph, Tail(ends),
                          dfs(graph, end_node,
                              [st EXCEPT !.visit[end_node] = TRUE]))
             ELSE dfs_for(graph, Tail(ends), st)

dfs(graph, start_node, st) ==
    LET st1 == dfs_for(graph, graph[start_node], st)
    IN  [st1 EXCEPT !.sorted_nodes = Append(@, start_node)]

\* for start_node in start_nodes: if not visit[start_node]: ...
RECURSIVE dfs_all(_, _, _)
dfs_all(graph, starts, st) ==
    IF starts = << >> THEN st
    ELSE LET start_node == Head(starts)
         IN  IF ~st.visit[start_node]
             THEN dfs_all(graph, Tail(starts),
                          dfs(graph, start_node,
                              [st EXCEPT !.visit[start_node] = TRUE]))
             ELSE dfs_all(graph, Tail(starts), st)

Reverse(s) == [i \in 1..Len(s) |-> s[Len(s) + 1 - i]]

\* a sort that leaves out sorted_nodes.reverse()
topological_sort_NoReverse(g, starts, candidates) ==
    LET start == IF starts = << >>
                 THEN SelectSeq(candidates,
                                LAMBDA n : ~has_input_node(g, n))
                 ELSE starts
        graph == build_graph(g, start)
    IN  IF start = << >> THEN << >>
        ELSE IF \A i \in 1..Len(start) : ~has_output_node(g, start[i])
        THEN start
        ELSE dfs_all(graph, start,
                     [visit |-> [n \in DOMAIN graph |-> FALSE],
                      sorted_nodes |-> << >>]).sorted_nodes

\* a sort without the "no start node has an output" return
topological_sort_NoShortcut(g, starts, candidates) ==
    LET start == IF starts = << >>
                 THEN SelectSeq(candidates,
                                LAMBDA n : ~has_input_node(g, n))
                 ELSE starts
        graph == build_graph(g, start)
    IN  IF start = << >> THEN << >>
        ELSE Reverse(dfs_all(graph, start,
                             [visit |-> [n \in DOMAIN graph |-> FALSE],
                              sorted_nodes |-> << >>]).sorted_nodes)

\* a sort that takes every candidate as a start node
topological_sort_AllCandidates(g, starts, candidates) ==
    LET start == IF starts = << >> THEN candidates ELSE starts
        graph == build_graph(g, start)
    IN  IF start = << >> THEN << >>
        ELSE IF \A i \in 1..Len(start) : ~has_output_node(g, start[i])
        THEN start
        ELSE IF DOMAIN graph = {} THEN << >>
        ELSE Reverse(dfs_all(graph, start,
                             [visit |-> [n \in DOMAIN graph |-> FALSE],
                              sorted_nodes |-> << >>]).sorted_nodes)

\* a sort that walks from the first start node only
topological_sort_FirstStart(g, starts, candidates) ==
    LET start == IF starts = << >>
                 THEN SelectSeq(candidates,
                                LAMBDA n : ~has_input_node(g, n))
                 ELSE starts
        graph == build_graph(g, start)
    IN  IF start = << >> THEN << >>
        ELSE IF \A i \in 1..Len(start) : ~has_output_node(g, start[i])
        THEN start
        ELSE IF DOMAIN graph = {} THEN << >>
        ELSE Reverse(dfs_all(graph, <<Head(start)>>,
                             [visit |-> [n \in DOMAIN graph |-> FALSE],
                              sorted_nodes |-> << >>]).sorted_nodes)

topological_sort(g, starts, candidates) ==
    LET start == IF starts = << >>
                 THEN SelectSeq(candidates,
                                LAMBDA n : ~has_input_node(g, n))
                 ELSE starts
        graph == build_graph(g, start)
    IN  IF start = << >> THEN << >>
        ELSE IF \A i \in 1..Len(start) : ~has_output_node(g, start[i])
        THEN start
        ELSE IF DOMAIN graph = {} THEN << >>
        ELSE Reverse(dfs_all(graph, start,
                             [visit |-> [n \in DOMAIN graph |-> FALSE],
                              sorted_nodes |-> << >>]).sorted_nodes)

\* the call topological_sort(start_nodes, all_nodes)
Sort ==
    /\ pc = "call"
    /\ result' = topological_sort(out_conn, start_nodes, all_nodes)
    /\ pc' = "done"
    /\ UNCHANGED <<out_conn, start_nodes, all_nodes>>
    /\ UNCHANGED cmdvars

\* all_nodes is read only when start_nodes is empty
TopoInit ==
    /\ out_conn \in Graphs
    /\ start_nodes \in StartLists
    /\ all_nodes \in CandidateLists
    /\ start_nodes # << >> => all_nodes = << >>
    /\ result = << >>
    /\ pc = "call"

TopoIdle ==
    /\ out_conn = [n \in TNodes |-> << << >>, << >> >>]
    /\ start_nodes = << >>
    /\ all_nodes = << >>
    /\ result = << >>
    /\ pc = "idle"

CmdIdle ==
    /\ nodes = NodeIds
    /\ connected_ports = [p \in Ports |-> << >>]
    /\ properties = [n \in NodeIds |-> [name \in PropNames |-> 0]]
    /\ pos = [n \in NodeIds |-> 0]
    /\ visible = [p \in Ports |-> TRUE]
    /\ widgets = [n \in NodeIds |-> [name \in PropNames |-> 0]]
    /\ prop_bin = [n \in NodeIds |-> [name \in PropNames |-> 0]]
    /\ calls = << >>
    /\ raised = FALSE
    /\ stack = << >>
    /\ index = 0
    /\ created = 0
    /\ discarded = {}
    /\ executed = << >>
    /\ applied = << >>
    /\ fresh = TRUE
    /\ sound = TRUE

vars == <<cmdvars, topovars>>

Init == CmdInit /\ TopoIdle

\* every command class on one undo stack
Next ==
    \/ PushPropertyChanged
    \/ PushNodeMoved
    \/ PushNodeAdded
    \/ PushNodeRemoved
    \/ PushPortConnected
    \/ PushPortDisconnected
    \/ PushPortVisible
    \/ Undo
    \/ Redo
    \/ Clear

Spec == Init /\ [][Next]_vars

\* the commands that change the node mapping and the connections
ConnNext ==
    \/ PushNodeAdded
    \/ PushNodeRemoved
    \/ PushPortConnected
    \/ PushPortDisconnected
    \/ Undo
    \/ Redo
    \/ Clear

ConnSpec == Init /\ [][ConnNext]_vars

\* the commands that change a node's or a port's own fields
EditNext ==
    \/ PushPropertyChanged
    \/ PushNodeMoved
    \/ PushPortVisible
    \/ Undo
    \/ Redo
    \/ Clear

EditSpec == Init /\ [][EditNext]_vars

\* adding nodes and moving them
PlaceNext ==
    \/ PushNodeAdded
    \/ PushNodeMoved
    \/ Undo
    \/ Redo
    \/ Clear

PlaceSpec == Init /\ [][PlaceNext]_vars

\* a session in which node 1 has been created and is not in the graph yet
NewNodeInit ==
    /\ nodes = NodeIds \ {1}
    /\ connected_ports = [p \in Ports |-> << >>]
    /\ properties = [n \in NodeIds |-> [name \in PropNames |-> 0]]
    /\ pos = [n \in NodeIds |-> 0]
    /\ visible = [p \in Ports |-> TRUE]
    /\ widgets = [n \in NodeIds |-> [name \in PropNames |-> 0]]
    /\ prop_bin = [n \in NodeIds |-> [name \in PropNames |-> 0]]
    /\ calls = << >>
    /\ raised = FALSE
    /\ stack = << >>
    /\ index = 0
    /\ created = 0
    /\ discarded = {}
    /\ executed = << >>
    /\ applied = << >>
    /\ fresh = TRUE
    /\ sound = TRUE

NewNodeSessionInit == NewNodeInit /\ TopoIdle

NewNodeSpec == NewNodeSessionInit /\ [][ConnNext]_vars

SortInit == TopoInit /\ CmdIdle

SortNext == Sort

SortSpec == SortInit /\ [][SortNext]_vars

\* the calls with start nodes given: all_nodes is not read.  Graphs holds
\* every renaming of each of its graphs, so the first start node is
\* taken to be node 1.
StartInit ==
    /\ out_conn \in Graphs
    /\ start_nodes \in {s \in StartLists : s # << >> /\ s[1] = 1}
    /\ all_nodes = << >>
    /\ result = << >>
    /\ pc = "call"

StartSortInit == StartInit /\ CmdIdle

StartSortSpec == StartSortInit /\ [][SortNext]_vars

\* the calls with no start node given: the roots are looked for among
\* all_nodes
RootInit ==
    /\ out_conn \in Graphs
    /\ start_nodes = << >>
    /\ all_nodes \in CandidateLists
    /\ result = << >>
    /\ pc = "call"

RootSortInit == RootInit /\ CmdIdle

RootSortSpec == RootSortInit /\ [][SortNext]_vars

\* ------------------------------------------------------------------------
\* Properties of the commands and the undo stack
\* ------------------------------------------------------------------------

RECURSIVE UndoTimes(_, _)
UndoTimes(h, k) == IF k = 0 THEN h ELSE UndoTimes(StackUndo(h), k - 1)

RECURSIVE RedoTimes(_, _)
RedoTimes(h, k) == IF k = 0 THEN h ELSE RedoTimes(StackRedo(h), k - 1)

\* q is listed by p: q's name is in p's list keyed by q's node id
ListedIn(cp, p, q) == q[1] \in DOMAIN cp[p] /\ InSeq(q[2], cp[p][q[1]])

Listed(p, q) == ListedIn(connected_ports, p, q)

\* the connection relation: the pairs <<p, q>> with q listed by p
Rel(cp) == {pq \in Ports \X Ports : ListedIn(cp, pq[1], pq[2])}

\* the command with the given uid
CmdOf(s, uid) == s[CHOOSE i \in 1..Len(s) : s[i].uid = uid]

\* the last operation ran exactly the given method of a command of the
\* given class
Ran(ex, s, type, method) ==
    /\ Len(ex) = 1
    /\ ex[1][2] = method
    /\ CmdOf(s, ex[1][1]).type = type

\* the command the last operation ran
LastCmd == CmdOf(stack, executed[1][1])

\* the pairs a NodeRemovedCmd captured, in both directions
CapturedPairs(cmd) ==
    LET caps == cmd.inputs \o cmd.outputs
    IN  UNION { UNION { {<<caps[i][1], caps[i][2][j]>>,
                         <<caps[i][2][j], caps[i][1]>>}
                        : j \in 1..Len(caps[i][2]) }
                : i \in 1..Len(caps) }

ModelVars == <<nodes, connected_ports, properties, pos, visible>>

\* C1: undo/redo inverse law.  In every state reached by pushing commands
\* built from the model state, and for every k from 0 to the cursor, k
\* calls of undo() followed by k calls of redo() leave the Graph Model
\* (nodes, properties, pos, visibility, connection mappings with their
\* keys and list orders) as it was.
UndoRedoInverse ==
    fresh =>
    \A k \in 0..index :
        Model(RedoTimes(UndoTimes(Hist, k), k).w) = Model(World)

\* C2: INV-1, connection symmetry.  For all ports P and Q, Q is listed by
\* P under Q's node id exactly when P is listed by Q under P's node id.
ConnectionSymmetry ==
    \A p \in Ports, q \in Ports : Listed(p, q) <=> Listed(q, p)

\* C2 witness: an undo of a PortDisconnectedCmd has put a pipe back
ConnectionSymmetryWitness ==
    /\ Ran(executed, stack, "PortDisconnectedCmd", "undo")
    /\ Listed(LastCmd.source, LastCmd.target)
    /\ Listed(LastCmd.target, LastCmd.source)

\* C3: node-removal round trip.  A NodeRemovedCmd captures exactly the
\* connections of its node; after its push the node is out of the node
\* mapping and none of the captured connections is left at either
\* endpoint, nothing else changing; the undo() that follows puts the node
\* back and restores exactly the captured connections, at both endpoints.
RemovalRoundTrip ==
    [][ /\ (created' = created + 1
            /\ stack'[index'].type = "NodeRemovedCmd")
           => LET cmd == stack'[index']
              IN  /\ cmd.node \notin nodes'
                  /\ CapturedPairs(cmd)
                       = {pq \in Rel(connected_ports) :
                             pq[1][1] = cmd.node \/ pq[2][1] = cmd.node}
                  /\ Rel(connected_ports')
                       = Rel(connected_ports) \ CapturedPairs(cmd)
        /\ (Ran(executed, stack, "NodeRemovedCmd", "redo")
            /\ Ran(executed', stack', "NodeRemovedCmd", "undo"))
           => LET cmd == stack[index]
              IN  /\ cmd.node \in nodes'
                  /\ Rel(connected_ports')
                       = Rel(connected_ports) \cup CapturedPairs(cmd)
                  /\ \A pq \in CapturedPairs(cmd) :
                        /\ ListedIn(connected_ports', pq[1], pq[2])
                        /\ ListedIn(connected_ports', pq[2], pq[1])
      ]_vars

\* C3 witness: the removal of a node with two connections has been undone
RemovalRoundTripWitness ==
    /\ Ran(executed, stack, "NodeRemovedCmd", "undo")
    /\ Cardinality(CapturedPairs(LastCmd)) = 4
    /\ LastCmd.node \in nodes
    /\ CapturedPairs(LastCmd) \subseteq Rel(connected_ports)

\* C4: INV-2, history cursor.  The cursor stays within 0..length; a
\* command of the history is below the cursor exactly when it is applied
\* (executed and not undone), and the applied ones are in push order; a
\* push runs the command's redo once and nothing else, appends the
\* command and leaves the cursor at the length.
HistoryCursor ==
    /\ [](/\ index \in 0..Len(stack)
          /\ \A i \in 1..Len(stack) :
                (i <= index) <=> InSeq(stack[i].uid, applied)
          /\ SelectSeq(applied, LAMBDA u : u \in Uids(stack))
               = [i \in 1..index |-> stack[i].uid])
    /\ [][ created' = created + 1
           => /\ executed' = << <<created', "redo">> >>
              /\ stack'[Len(stack')].uid = created'
              /\ index' = Len(stack') ]_vars

\* C4 witness: two commands pushed and the second undone, the cursor
\* between the applied command and the undone one
HistoryCursorWitness ==
    /\ Len(stack) = 2
    /\ index = 1
    /\ executed = << <<stack[2].uid, "undo">> >>
    /\ applied = <<stack[1].uid>>

\* C5: history truncation.  A push discards every command that was at or
\* after the cursor; no operation ever runs a discarded command; and a
\* redo() right after a push changes neither the Graph Model nor the
\* history.
HistoryTruncation ==
    [][ /\ created' = created + 1
           => /\ Uids(SubSeq(stack, index + 1, Len(stack)))
                    \subseteq discarded'
              /\ Uids(SubSeq(stack, index + 1, Len(stack)))
                    \cap Uids(stack') = {}
        /\ \A i \in 1..Len(executed') : executed'[i][1] \notin discarded'
        /\ (created > 0 /\ index = Len(stack)
            /\ executed = << <<created, "redo">> >> /\ Redo)
           => UNCHANGED <<ModelVars, stack, index>>
      ]_vars

\* C5 witness: a command that had been undone was discarded by a push
HistoryTruncationWitness ==
    /\ discarded # {}
    /\ stack # << >>
    /\ index = Len(stack)
    /\ executed = << <<created, "redo">> >>
    /\ \E u \in discarded : ~InSeq(u, applied)

\* C8: property-change no-op guard.  Running redo or undo of a
\* PropertyChangedCmd whose old value equals its new value changes nothing
\* of the Graph Model and makes no view or property-bin call.
PropertyNoOp ==
    [][ \A i \in 1..Len(executed') :
           LET cmd == CmdOf(stack', executed'[i][1])
           IN  (cmd.type = "PropertyChangedCmd" /\ cmd.old_val = cmd.new_val)
               => /\ UNCHANGED ModelVars
                  /\ UNCHANGED <<widgets, prop_bin>>
                  /\ calls' = << >>
                  /\ ~raised'
      ]_vars

\* C8 witness: such a command has been pushed and then undone
PropertyNoOpWitness ==
    /\ Ran(executed, stack, "PropertyChangedCmd", "undo")
    /\ LastCmd.old_val = LastCmd.new_val

\* the last operation of the step ran the disconnect transformation
RanDisconnect(ex, s) ==
    \/ Ran(ex, s, "PortConnectedCmd", "undo")
    \/ Ran(ex, s, "PortDisconnectedCmd", "redo")

\* C9: idempotent teardown.  The disconnect transformation run on a pair
\* that is not connected (no key for the peer's node id, or a list without
\* the peer's name) raises nothing and leaves every connection mapping as
\* it was.
IdempotentTeardown ==
    [][ (/\ RanDisconnect(executed', stack')
         /\ LET cmd == CmdOf(stack', executed'[1][1])
            IN  /\ ~Listed(cmd.source, cmd.target)
                /\ ~Listed(cmd.target, cmd.source))
        => /\ ~raised'
           /\ connected_ports' = connected_ports
      ]_vars

\* C9 witness: a disconnect ran on a port whose list for the peer's node
\* names another port only
IdempotentTeardownWitness ==
    /\ RanDisconnect(executed, stack)
    /\ ~Listed(LastCmd.source, LastCmd.target)
    /\ ~Listed(LastCmd.target, LastCmd.source)
    /\ \E p \in {LastCmd.source, LastCmd.target} :
          \E k \in DOMAIN connected_ports[p] : connected_ports[p][k] # << >>
    /\ \E p \in {LastCmd.source, LastCmd.target} :
          DOMAIN connected_ports[p] = {}

\* C10: empty-key pruning.  After the disconnect transformation has run,
\* no port's connection mapping has a key mapped to an empty list.
EmptyKeyPruned ==
    RanDisconnect(executed, stack)
    => \A p \in Ports : \A k \in DOMAIN connected_ports[p] :
          connected_ports[p][k] # << >>

\* the commands that change the node mapping or the connections
StructuralTypes ==
    {"NodeAddedCmd", "NodeRemovedCmd", "PortConnectedCmd",
     "PortDisconnectedCmd"}

\* the method of a structural command needs a node that is not in the
\* node mapping ns; redo of a NodeAddedCmd and undo of a NodeRemovedCmd are
\* the two that put their node into the mapping
RefersAbsent(cmd, method, ns) ==
    /\ cmd.type \in StructuralTypes
    /\ ~(cmd.type = "NodeAddedCmd" /\ method = "redo")
    /\ ~(cmd.type = "NodeRemovedCmd" /\ method = "undo")
    /\ NamedNodes(cmd) \ ns # {}

\* C11: precondition violations.  Every redo or undo of a node or
\* connection command (Node-Added undo, Node-Removed redo, Port-Connected,
\* Port-Disconnected) that refers to a node outside the node mapping
\* raises an error and leaves
\* the Graph Model (nodes, connections, properties, positions,
\* visibility) exactly as it was; no connect or disconnect is applied in
\* part.
PreconditionErrors ==
    [][ \A i \in 1..Len(executed') :
           RefersAbsent(CmdOf(stack', executed'[i][1]), executed'[i][2],
                        nodes)
           => /\ raised'
              /\ UNCHANGED ModelVars
      ]_vars

\* C12: history-boundary no-ops.  undo() at cursor 0 and redo() at cursor
\* = length raise nothing and change neither the Graph Model, the command
\* sequence nor the cursor; clear() empties the command sequence and sets
\* the cursor to 0 without changing the Graph Model, and undo() and redo()
\* on the cleared history change nothing.
HistoryBoundary ==
    [][ /\ (index = 0 /\ Undo)
           => (~raised' /\ UNCHANGED <<ModelVars, stack, index>>)
        /\ (index = Len(stack) /\ Redo)
           => (~raised' /\ UNCHANGED <<ModelVars, stack, index>>)
        /\ Clear
           => /\ stack' = << >>
              /\ index' = 0
              /\ ~raised'
              /\ UNCHANGED ModelVars
              /\ LET h == StackClear(Hist)
                 IN  /\ StackUndo(h) = h
                     /\ StackRedo(h) = h
      ]_vars

\* C12 witness: a history whose commands are still applied has been
\* cleared
HistoryBoundaryWitness ==
    /\ stack = << >>
    /\ index = 0
    /\ executed = << >>
    /\ discarded # {}
    /\ \E u \in discarded : InSeq(u, applied)
    /\ nodes # NodeIds

\* C13: Node-Moved asymmetry.  A redo of a NodeMovedCmd whose pos equals
\* its prev_pos changes no model position and sets no view position;
\* otherwise it sets the node's model and view position to pos.  An undo
\* sets the node's model and view position to prev_pos, whatever the
\* node's position was; no other node's position changes.
NodeMovedAsymmetry ==
    [][ /\ Ran(executed', stack', "NodeMovedCmd", "redo")
           => LET cmd == CmdOf(stack', executed'[1][1])
              IN  IF cmd.pos = cmd.prev_pos
                  THEN pos' = pos /\ calls' = << >>
                  ELSE /\ pos' = [pos EXCEPT ![cmd.node] = cmd.pos[1]]
                       /\ calls' = << <<"view.xy_pos", cmd.node,
                                        cmd.pos[1]>> >>
        /\ Ran(executed', stack', "NodeMovedCmd", "undo")
           => LET cmd == CmdOf(stack', executed'[1][1])
              IN  /\ pos' = [pos EXCEPT ![cmd.node] = cmd.prev_pos[1]]
                  /\ calls' = << <<"view.xy_pos", cmd.node,
                                   cmd.prev_pos[1]>> >>
      ]_vars

\* C13 witness: a NodeMovedCmd with pos = prev_pos, whose redo did nothing,
\* was undone and moved the node to prev_pos, away from where it stood
NodeMovedAsymmetryWitness ==
    /\ Ran(executed, stack, "NodeMovedCmd", "undo")
    /\ LastCmd.pos = LastCmd.prev_pos
    /\ pos[LastCmd.node] = LastCmd.prev_pos[1]
    /\ pos[LastCmd.node] # 0
    /\ created = 1

\* C14: Node-Added position memory.  A redo of a NodeAddedCmd puts its
\* node into the node mapping and notifies the viewer with the position
\* the command holds; an undo takes the node out of the mapping.  A
\* command that holds no position takes the node's model position at its
\* first undo; a command that holds a position, supplied or recorded,
\* keeps it through every undo and redo, so that a command constructed
\* with a position notifies with that position on every redo.
NodeAddedPosition ==
    [][ /\ Ran(executed', stack', "NodeAddedCmd", "redo")
           => LET cmd == CmdOf(stack', executed'[1][1])
              IN  /\ nodes' = nodes \cup {cmd.node}
                  /\ calls' = << <<"viewer.add_node", cmd.node, cmd.pos>> >>
                  /\ cmd.given_pos # << >> => cmd.pos = cmd.given_pos
        /\ Ran(executed', stack', "NodeAddedCmd", "undo")
           => LET cmd == CmdOf(stack', executed'[1][1])
              IN  cmd.node \notin nodes'
        /\ \A i \in 1..Len(stack') :
              (i <= Len(stack) /\ stack[i].uid = stack'[i].uid
               /\ stack[i].type = "NodeAddedCmd")
              => stack'[i].pos =
                    IF stack[i].pos = << >>
                       /\ executed' = << <<stack[i].uid, "undo">> >>
                    THEN <<pos[stack[i].node]>>
                    ELSE stack[i].pos
      ]_vars

\* C14 witness: a node was moved to position 1, a NodeAddedCmd constructed
\* for it without a position was undone and redone, and the redo notified
\* the viewer with position 1
NodeAddedPositionWitness ==
    /\ Len(stack) = 2
    /\ index = 2
    /\ stack[1].type = "NodeMovedCmd"
    /\ stack[2].type = "NodeAddedCmd"
    /\ stack[1].node = stack[2].node
    /\ executed = << <<stack[2].uid, "redo">> >>
    /\ pos[stack[2].node] = 1
    /\ stack[2].given_pos = << >>
    /\ stack[2].pos = <<1>>
    /\ calls = << <<"viewer.add_node", stack[2].node, <<1>> >> >>
    /\ stack[2].node \in nodes

\* the calls tell the port view and its text item the visibility v, and
\* the node-level refresh post_init comes after them, last
NotifiesThenRefreshes(cs, port, v) ==
    /\ Len(cs) >= 2
    /\ cs[1] = <<"view.setVisible", port, v>>
    /\ cs[Len(cs)] = <<"post_init", port[1]>>
    /\ \A i \in 1..(Len(cs) - 1) : cs[i][1] # "post_init" /\ cs[i][3] = v

\* C15: Port-Visibility.  For a PortVisibleCmd that captured visibility v,
\* the port's model visibility is (not v) after a redo and v after an
\* undo, from either visibility of the port before the call; every redo
\* and undo run by the stack tells the views the new visibility and then
\* runs the node-level refresh, and changes no other port's visibility.
PortVisibility ==
    /\ [](\A i \in 1..Len(stack) :
             stack[i].type = "PortVisibleCmd"
             => \A b \in BOOLEAN :
                   LET cmd == stack[i]
                       w == [World EXCEPT !.visible[cmd.port] = b]
                   IN  /\ CmdRedo(cmd, w).visible[cmd.port] = ~cmd.visible
                       /\ CmdUndo(cmd, w).visible[cmd.port] = cmd.visible)
    /\ [][ /\ Ran(executed', stack', "PortVisibleCmd", "redo")
              => LET cmd == CmdOf(stack', executed'[1][1])
                 IN  /\ visible' = [visible EXCEPT
                                       ![cmd.port] = ~cmd.visible]
                     /\ NotifiesThenRefreshes(calls', cmd.port,
                                              ~cmd.visible)
           /\ Ran(executed', stack', "PortVisibleCmd", "undo")
              => LET cmd == CmdOf(stack', executed'[1][1])
                 IN  /\ visible' = [visible EXCEPT
                                       ![cmd.port] = cmd.visible]
                     /\ NotifiesThenRefreshes(calls', cmd.port,
                                              cmd.visible)
         ]_vars

\* C15 witness: a port was hidden by one PortVisibleCmd and shown by a
\* second one, which captured FALSE; the undo of the second hid it again
PortVisibilityWitness ==
    /\ Len(stack) = 2
    /\ index = 1
    /\ stack[1].type = "PortVisibleCmd"
    /\ stack[2].type = "PortVisibleCmd"
    /\ stack[1].port = stack[2].port
    /\ stack[1].visible
    /\ ~stack[2].visible
    /\ executed = << <<stack[2].uid, "undo">> >>
    /\ ~visible[stack[2].port]
    /\ calls[Len(calls)] = <<"post_init", stack[2].port[1]>>

\* the last operation of the step ran the connect transformation
RanConnect(ex, s) ==
    \/ Ran(ex, s, "PortConnectedCmd", "redo")
    \/ Ran(ex, s, "PortDisconnectedCmd", "undo")

\* no name twice in a list
NoRepeat(names) ==
    \A i \in 1..Len(names), j \in 1..Len(names) :
        names[i] = names[j] => i = j

\* C18: connect idempotence.  The connect transformation run on a pair
\* that is connected (each port listed by the other) leaves every
\* connection mapping as it was; and no connection list ever holds a peer
\* port name more than once.
ConnectIdempotence ==
    /\ [](\A p \in Ports : \A k \in DOMAIN connected_ports[p] :
             NoRepeat(connected_ports[p][k]))
    /\ [][ (/\ RanConnect(executed', stack')
            /\ LET cmd == CmdOf(stack', executed'[1][1])
               IN  /\ Listed(cmd.source, cmd.target)
                   /\ Listed(cmd.target, cmd.source))
           => connected_ports' = connected_ports
         ]_vars

\* C19: no dangling connections.  As long as every command pushed named
\* only nodes of the node mapping (a NodeAddedCmd naming a node that is
\* not in the mapping yet), every node id that keys a non-empty name list
\* in the connection mapping of a port of a node of the node mapping is
\* in the node mapping.
NoDangling ==
    sound =>
    \A p \in Ports :
        p[1] \in nodes
        => \A k \in DOMAIN connected_ports[p] :
              connected_ports[p][k] # << >> => k \in nodes

\* C20: push-then-undo restores the connection relation.  In every state
\* and for every pair of ports a pipe can join, connected or not, pushing
\* a PortConnectedCmd or a PortDisconnectedCmd for the pair and calling
\* undo() once gives the set of connected port pairs of the state.
PushUndoRestores ==
    \A pq \in Connectable :
        \A cmd \in {PortConnectedCmd(created + 1, pq[1], pq[2]),
                    PortDisconnectedCmd(created + 1, pq[1], pq[2])} :
            Rel(StackUndo(StackPush(Hist, cmd)).w.connected_ports)
              = Rel(connected_ports)

\* ------------------------------------------------------------------------
\* Properties of topological_sort
\* ------------------------------------------------------------------------

\* u -> v: an output port of u is connected to a port of v
Edge(g, u, v) == \E i \in 1..Len(g[u]) : InSeq(v, g[u][i])

\* the nodes reachable from u in one or more steps, by a walk of at most
\* |TNodes| edges
RECURSIVE ReachIn(_, _, _)
ReachIn(g, S, k) ==
    IF k = 0 THEN {}
    ELSE LET step == {v \in TNodes : \E u \in S : Edge(g, u, v)}
         IN  step \cup ReachIn(g, step, k - 1)

Acyclic(g) == \A n \in TNodes : n \notin ReachIn(g, {n}, Cardinality(TNodes))

\* the diamond 1 -> 2, 1 -> 3, 2 -> 4, 3 -> 4
IsDiamond(g) ==
    \A u \in TNodes, v \in TNodes :
        Edge(g, u, v) <=> <<u, v>> \in {<<1, 2>>, <<1, 3>>, <<2, 4>>, <<3, 4>>}

SomeStartHasOutput ==
    \E i \in 1..Len(start_nodes) : has_output_node(out_conn, start_nodes[i])

\* C6: topological order correctness.  For an acyclic graph and a
\* non-empty start list with a start node that has a connected output, u
\* comes before v in the result for every connection u -> v between
\* returned nodes; the diamond sorted from <<1>> gives four nodes, 1 first
\* and 4 last.
TopologicalOrder ==
    (pc = "done" /\ Acyclic(out_conn) /\ start_nodes # << >>
     /\ SomeStartHasOutput)
    => /\ \A i \in 1..Len(result), j \in 1..Len(result) :
             Edge(out_conn, result[i], result[j]) => i < j
       /\ (IsDiamond(out_conn) /\ start_nodes = <<1>>)
          => /\ Len(result) = 4
             /\ result[1] = 1
             /\ result[4] = 4

\* C6 witness: the diamond has been sorted from <<1>>
TopologicalOrderWitness ==
    /\ pc = "done"
    /\ IsDiamond(out_conn)
    /\ start_nodes = <<1>>
    /\ Len(result) = 4

\* C7: degenerate inputs.  topological_sort([], []) is empty, and a
\* non-empty start list none of whose nodes has a connected output port
\* is returned as it is.
DegenerateInputs ==
    pc = "done"
    => /\ (start_nodes = << >> /\ all_nodes = << >>) => result = << >>
       /\ (start_nodes # << >> /\ ~SomeStartHasOutput)
          => result = start_nodes

\* C7 witness: two start nodes without outputs, the larger first, in a
\* graph that has pipes elsewhere
DegenerateInputsWitness ==
    /\ pc = "done"
    /\ Len(start_nodes) = 2
    /\ start_nodes[1] > start_nodes[2]
    /\ ~SomeStartHasOutput
    /\ \E n \in TNodes : has_output_node(out_conn, n)
    /\ result = start_nodes

\* the nodes reachable from the start nodes by output connections, the
\* start nodes included
Reachable(g, starts) ==
    Range(starts) \cup ReachIn(g, Range(starts), Cardinality(TNodes))

SomeCycle(g) == \E n \in TNodes : n \in ReachIn(g, {n}, Cardinality(TNodes))

\* C16: termination and coverage.  Every call of topological_sort, on
\* graphs with cycles too, has a result, a list of nodes no longer than
\* the start list and the node set together; and when the start list is
\* not empty and a start node has a connected output, the result holds
\* every node reachable from the start nodes by output connections, the
\* start nodes included, once each, and no other node.
SortCoverage ==
    /\ pc = "call"
       => LET r == topological_sort(out_conn, start_nodes, all_nodes)
          IN  /\ Range(r) \subseteq TNodes
              /\ Len(r) <= Len(start_nodes) + Cardinality(TNodes)
    /\ (pc = "done" /\ start_nodes # << >> /\ SomeStartHasOutput)
       => /\ Range(result) = Reachable(out_conn, start_nodes)
          /\ Cardinality(Range(result)) = Len(result)

\* C16 witness: a graph with a cycle was sorted from a start list that
\* names a node twice, and all four nodes were returned
SortCoverageWitness ==
    /\ pc = "done"
    /\ SomeCycle(out_conn)
    /\ start_nodes = <<1, 1>>
    /\ Len(result) = 4

\* the candidates without a connected input port, in candidate order
Roots(g, candidates) ==
    SelectSeq(candidates, LAMBDA n : \A m \in TNodes : ~Edge(g, m, n))

\* C17: root auto-detection.  A call with an empty start list returns what
\* the call with the start list Roots (the candidates without a connected
\* input, in candidate order) returns; when no candidate is a root the
\* result is empty.
RootDetection ==
    (pc = "done" /\ start_nodes = << >>)
    => /\ result = topological_sort(out_conn, Roots(out_conn, all_nodes),
                                    << >>)
       /\ Roots(out_conn, all_nodes) = << >> => result = << >>

\* C17 witness: from the candidates 4, 3, 2, 1 the two roots were taken
\* as start nodes and the sort returned all four nodes
RootDetectionWitness ==
    /\ pc = "done"
    /\ start_nodes = << >>
    /\ all_nodes = <<4, 3, 2, 1>>
    /\ Len(Roots(out_conn, all_nodes)) = 2
    /\ Len(result) = 4
    /\ result[1] = Roots(out_conn, all_nodes)[2]

====
